---- MODULE Spec2Model ----
(***************************************************************************)
(* Model of src/utils/process_parking_lot.py: the Space Discoverer         *)
(* (get_parking_spaces) and the Space Orderer (get_order, apply_order).    *)
(*                                                                         *)
(* A DataFrame is a sequence of rows (functions from column names to       *)
(* values) together with its set of column names.  Numbers are exact:      *)
(*   - a median is kept doubled (cx2 = 2 * median(cx)), so that the mean   *)
(*     of the two middle values of an even-sized group stays an integer;   *)
(*   - threshold is the fraction threshold / ThresholdDen;                 *)
(*   - space_size is the fraction space_size / SpaceSizeDen, and a radius  *)
(*     is kept as its numerator over RadiusDen.                            *)
(***************************************************************************)
EXTENDS Integers, Sequences, FiniteSets, TLC

VARIABLES df, columns, pc, call, err, valid_clusters, median_coords,
          parking_spaces, order_left_right, ordered

vars == <<df, columns, pc, call, err, valid_clusters, median_coords,
          parking_spaces, order_left_right, ordered>>

discoverer_vars == <<df, columns, call, err, valid_clusters, median_coords>>
orderer_vars == <<parking_spaces, order_left_right, ordered>>

(***************************************************************************)
(* Bounds of the explored inputs.                                          *)
(***************************************************************************)
MaxRows == 3
MaxT == 2
MaxX == 2
MaxY == 1
MaxLackingRows == 1
MaxSpaces == 3
MaxCoord == 2

\* Half sides (half width, half height) of the detected bounding boxes.
HalfSides == {<<1, 2>>, <<2, 1>>}
\* Values the caller passes for eps, threshold (tenths) and space_size (halves).
EpsValues == {1, 2}
ThresholdValues == {5, 9}
SpaceSizeValues == {1, 2}
\* Radii of the spaces handed to the Orderer.
RadiusValues == {1, 2}

ThresholdDen == 10
SpaceSizeDen == 2
\* radius = (min2 / 2) * ((space_size / SpaceSizeDen) / 2)
RadiusDen == 4 * SpaceSizeDen

RequiredColumns == {"timestamp", "cx", "cy", "x1", "y1", "x2", "y2"}
NOISE == -1

(***************************************************************************)
(* Helpers on sequences.                                                   *)
(***************************************************************************)
Range(s) == {s[i] : i \in DOMAIN s}

Reverse(s) == [i \in 1..Len(s) |-> s[Len(s) + 1 - i]]

Min(a, b) == IF a < b THEN a ELSE b

\* Stable insertion sort of a sequence of rows by the integer column `by`,
\* ascending (numpy's sort on fewer than 17 elements is an insertion sort).
RECURSIVE InsertRow(_, _, _)
InsertRow(sorted, r, by) ==
    IF sorted = <<>> THEN <<r>>
    ELSE IF sorted[Len(sorted)][by] <= r[by] THEN Append(sorted, r)
    ELSE Append(InsertRow(SubSeq(sorted, 1, Len(sorted) - 1), r, by),
                sorted[Len(sorted)])

RECURSIVE argsort(_, _)
argsort(s, by) ==
    IF s = <<>> THEN <<>>
    ELSE InsertRow(argsort(SubSeq(s, 1, Len(s) - 1), by), s[Len(s)], by)

\* The ascending sequence of the members of a finite set of integers.
RECURSIVE SortedKeys(_)
SortedKeys(S) ==
    IF S = {} THEN <<>>
    ELSE LET m == CHOOSE x \in S : \A y \in S : x <= y
         IN <<m>> \o SortedKeys(S \ {m})

\* Twice pandas' median of a non-empty sequence of integers.
RECURSIVE InsertInt(_, _)
InsertInt(sorted, v) ==
    IF sorted = <<>> THEN <<v>>
    ELSE IF sorted[Len(sorted)] <= v THEN Append(sorted, v)
    ELSE Append(InsertInt(SubSeq(sorted, 1, Len(sorted) - 1), v),
                sorted[Len(sorted)])

RECURSIVE SortInts(_)
SortInts(s) ==
    IF s = <<>> THEN <<>>
    ELSE InsertInt(SortInts(SubSeq(s, 1, Len(s) - 1)), s[Len(s)])

median2(s) ==
    LET t == SortInts(s)
        n == Len(t)
    IN IF n % 2 = 1 THEN 2 * t[(n + 1) \div 2]
       ELSE t[n \div 2] + t[n \div 2 + 1]

(***************************************************************************)
(* DBSCAN(eps, min_samples).fit(coords).labels_                            *)
(***************************************************************************)
\* A neighbourhood of three points instead of two.
min_samples_mutant == 2 + 1

min_samples == 2

Dist2(p, q) == (p.cx - q.cx) * (p.cx - q.cx) + (p.cy - q.cy) * (p.cy - q.cy)

\* The eps-neighbourhood of point i, the point itself included.
neighborhoods(coords, eps, i) ==
    {j \in DOMAIN coords : Dist2(coords[i], coords[j]) <= eps * eps}

is_core(coords, eps, i) ==
    Cardinality(neighborhoods(coords, eps, i)) >= min_samples

\* Grow cluster label_num from the points on the stack: an unlabelled point
\* takes the label, and a core point pushes its unlabelled neighbours.
RECURSIVE expand(_, _, _, _, _)
expand(coords, eps, labels, stack, label_num) ==
    IF stack = {} THEN labels
    ELSE LET i == CHOOSE v \in stack : TRUE
             rest == stack \ {i}
         IN IF labels[i] = NOISE
            THEN LET labelled == [labels EXCEPT ![i] = label_num]
                     push == IF is_core(coords, eps, i)
                             THEN {v \in neighborhoods(coords, eps, i) :
                                      labelled[v] = NOISE}
                             ELSE {}
                 IN expand(coords, eps, labelled, rest \cup push, label_num)
            ELSE expand(coords, eps, labels, rest, label_num)

RECURSIVE dbscan_inner(_, _, _, _, _)
dbscan_inner(coords, eps, labels, i, label_num) ==
    IF i > Len(coords) THEN labels
    ELSE IF labels[i] # NOISE \/ ~is_core(coords, eps, i)
         THEN dbscan_inner(coords, eps, labels, i + 1, label_num)
         ELSE dbscan_inner(coords, eps,
                           expand(coords, eps, labels, {i}, label_num),
                           i + 1, label_num + 1)

\* fit() refuses an array without samples (ValueError).
fit_rejects_mutant(coords) == FALSE

fit_rejects(coords) == coords = <<>>

DBSCAN_labels(coords, eps) ==
    dbscan_inner(coords, eps, [i \in DOMAIN coords |-> NOISE], 1, 0)

(***************************************************************************)
(* get_parking_spaces, stage by stage.                                     *)
(***************************************************************************)
Column(d, name) == [i \in DOMAIN d |-> d[i][name]]

\* coords = df[['cx', 'cy']].values
coords_of(d) == [i \in DOMAIN d |-> [cx |-> d[i]["cx"], cy |-> d[i]["cy"]]]

\* df['cluster'] = db.labels_
set_cluster(d, labels) ==
    [i \in DOMAIN d |->
        [c \in (DOMAIN d[i]) \cup {"cluster"} |->
            IF c = "cluster" THEN labels[i] ELSE d[i][c]]]

\* df['timestamp'].nunique()
total_frames(d) == Cardinality(Range(Column(d, "timestamp")))

\* The rows of one group of df.groupby('cluster').
group(d, c) == SelectSeq(d, LAMBDA r : r["cluster"] = c)

\* df.groupby('cluster')['timestamp'].nunique()
cluster_counts(d) ==
    [c \in Range(Column(d, "cluster")) |->
        Cardinality(Range(Column(group(d, c), "timestamp")))]

\* A strict comparison with the threshold.
valid_index_mutant(d, threshold) ==
    {c \in DOMAIN cluster_counts(d) :
        cluster_counts(d)[c] * ThresholdDen > total_frames(d) * threshold}

\* cluster_counts[cluster_counts >= total_frames * threshold].index
valid_index(d, threshold) ==
    {c \in DOMAIN cluster_counts(d) :
        cluster_counts(d)[c] * ThresholdDen >= total_frames(d) * threshold}

\* df[df['cluster'].isin(valid_clusters)] with the width and height columns.
df_filtered(d, valid) ==
    LET kept == SelectSeq(d, LAMBDA r : r["cluster"] \in valid)
    IN [i \in DOMAIN kept |->
           [c \in (DOMAIN kept[i]) \cup {"width", "height"} |->
               IF c = "width" THEN kept[i]["x2"] - kept[i]["x1"]
               ELSE IF c = "height" THEN kept[i]["y2"] - kept[i]["y1"]
               ELSE kept[i][c]]]

\* groupby('cluster')[name].median().reset_index(): one row per group, in
\* ascending order of the cluster label.
groupby_median(d, name) ==
    LET keys == SortedKeys(Range(Column(d, "cluster")))
    IN [k \in DOMAIN keys |->
           [cluster |-> keys[k],
            value2 |-> median2(Column(group(d, keys[k]), name))]]

median_centers_of(d) ==
    LET mx == groupby_median(d, "cx")
        my == groupby_median(d, "cy")
    IN [k \in DOMAIN mx |->
           [cluster |-> mx[k].cluster, cx2 |-> mx[k].value2, cy2 |-> my[k].value2]]

\* pd.merge(median_width, median_height, on='cluster'): an inner join that
\* keeps the order of the left keys.
RECURSIVE merge(_, _)
merge(left, right) ==
    IF left = <<>> THEN <<>>
    ELSE LET l == left[1]
             hits == SelectSeq(right, LAMBDA r : r.cluster = l.cluster)
         IN [j \in DOMAIN hits |->
                [cluster |-> l.cluster, width2 |-> l.value2,
                 height2 |-> hits[j].value2]]
            \o merge(Tail(left), right)

\* The width taken for the shorter side.
min_side2_mutant(x) == x.width2

\* x['width'] if x['width'] < x['height'] else x['height']
min_side2(x) == IF x.width2 < x.height2 THEN x.width2 ELSE x.height2

\* sides['radius'] = sides['min_side'] * (space_size / 2), over RadiusDen.
radius_of(x, space_size) == min_side2(x) * space_size

sides_of(d, space_size) ==
    LET m == merge(groupby_median(d, "width"), groupby_median(d, "height"))
    IN [k \in DOMAIN m |->
           [cluster |-> m[k].cluster, radius |-> radius_of(m[k], space_size)]]

\* pd.concat([median_centers, sides['radius']], axis=1)[['cx','cy','radius']]
\* .reset_index(drop=True): the two frames are aligned on their row index.
concat(centers, sides) ==
    [k \in 1..Min(Len(centers), Len(sides)) |->
        [index |-> k - 1, cx2 |-> centers[k].cx2, cy2 |-> centers[k].cy2,
         radius |-> sides[k].radius]]

(***************************************************************************)
(* The detector fills the table; the caller then runs the Discoverer.      *)
(***************************************************************************)
Detection(t, x, y, hs) ==
    [c \in RequiredColumns |->
        CASE c = "timestamp" -> t
          [] c = "cx" -> x
          [] c = "cy" -> y
          [] c = "x1" -> x - hs[1]
          [] c = "x2" -> x + hs[1]
          [] c = "y1" -> y - hs[2]
          [] c = "y2" -> y + hs[2]]

LastT == IF df = <<>> THEN 1 ELSE df[Len(df)]["timestamp"]

\* One more detection of the current frame or of the next one.
AddDetection ==
    /\ pc = "collect"
    /\ columns = RequiredColumns
    /\ Len(df) < MaxRows
    /\ \E t \in {LastT, LastT + 1}, x \in 0..MaxX, y \in 0..MaxY, hs \in HalfSides :
          /\ t <= MaxT
          /\ df # <<>> \/ t = 1
          /\ df' = Append(df, Detection(t, x, y, hs))
    /\ UNCHANGED <<columns, pc, call, err, valid_clusters, median_coords>>
    /\ UNCHANGED orderer_vars

\* The table reaches the Discoverer without one of the required columns.
DropColumn ==
    /\ pc = "collect"
    /\ columns = RequiredColumns
    /\ Len(df) <= MaxLackingRows
    /\ \E c \in RequiredColumns :
          /\ columns' = columns \ {c}
          /\ df' = [i \in DOMAIN df |-> [k \in columns \ {c} |-> df[i][k]]]
    /\ UNCHANGED <<pc, call, err, valid_clusters, median_coords>>
    /\ UNCHANGED orderer_vars

Raise(e, d, cols, valid) ==
    /\ pc' = "raised"
    /\ err' = e
    /\ df' = d
    /\ columns' = cols
    /\ valid_clusters' = valid
    /\ median_coords' = <<>>

Return(d, cols, valid, result) ==
    /\ pc' = "returned"
    /\ err' = "none"
    /\ df' = d
    /\ columns' = cols
    /\ valid_clusters' = valid
    /\ median_coords' = result

get_parking_spaces(eps, threshold, space_size) ==
    LET labels == DBSCAN_labels(coords_of(df), eps)
        clustered == set_cluster(df, labels)
        cols == columns \cup {"cluster"}
        valid == valid_index(clustered, threshold)
        filtered == df_filtered(clustered, valid)
        centers == median_centers_of(filtered)
        sides == sides_of(filtered, space_size)
    IN IF ~({"cx", "cy"} \subseteq columns)
       THEN Raise("KeyError", df, columns, {})
       ELSE IF fit_rejects(coords_of(df))
       THEN Raise("ValueError", df, columns, {})
       ELSE IF "timestamp" \notin columns
       THEN Raise("KeyError", clustered, cols, {})
       ELSE IF ~({"x1", "y1", "x2", "y2"} \subseteq columns)
       THEN Raise("KeyError", clustered, cols, valid)
       ELSE IF valid = {}
       \* sides.apply(..., axis=1) on a frame without rows: older pandas
       \* hand back a frame, whose assignment to one column raises; newer
       \* pandas hand back an empty column.
       THEN \/ Raise("ValueError", clustered, cols, valid)
            \/ Return(clustered, cols, valid, <<>>)
       ELSE Return(clustered, cols, valid, concat(centers, sides))

GetParkingSpaces ==
    /\ pc = "collect"
    /\ \E eps \in EpsValues, threshold \in ThresholdValues,
          space_size \in SpaceSizeValues :
          /\ call' = [eps |-> eps, threshold |-> threshold,
                      space_size |-> space_size]
          /\ get_parking_spaces(eps, threshold, space_size)
    /\ UNCHANGED orderer_vars

NoCall == [eps |-> 0, threshold |-> 0, space_size |-> 0]

Init ==
    /\ df = <<>>
    /\ columns = RequiredColumns
    /\ pc = "collect"
    /\ call = NoCall
    /\ err = "none"
    /\ valid_clusters = {}
    /\ median_coords = <<>>
    /\ parking_spaces = <<>>
    /\ order_left_right = FALSE
    /\ ordered = <<>>

Next == AddDetection \/ DropColumn \/ GetParkingSpaces

Spec == Init /\ [][Next]_vars

(***************************************************************************)
(* The Space Orderer.  A row of parking_spaces is [index, cx, cy, radius]; *)
(* the Orderer only compares and subtracts coordinates, so their unit is   *)
(* immaterial.                                                             *)
(***************************************************************************)
col_max(ps, name) ==
    CHOOSE m \in Range(Column(ps, name)) :
        \A v \in Range(Column(ps, name)) : v <= m

col_min(ps, name) ==
    CHOOSE m \in Range(Column(ps, name)) :
        \A v \in Range(Column(ps, name)) : m <= v

spaces_width(ps) == col_max(ps, "cx") - col_min(ps, "cx")
spaces_height(ps) == col_max(ps, "cy") - col_min(ps, "cy")

\* A tie resolved to left-to-right.
get_order_mutant(ps) ==
    IF ps = <<>> THEN FALSE
    ELSE spaces_width(ps) >= spaces_height(ps)

\* True if spaces_width > spaces_height else False.  The max and min of an
\* empty column are NaN, and NaN > NaN is False.
get_order(ps) ==
    IF ps = <<>> THEN FALSE
    ELSE spaces_width(ps) > spaces_height(ps)

\* The ascending flag ignored.
sort_values_mutant(ps, by, ascending) == argsort(ps, by)

\* DataFrame.sort_values(by, ascending): a descending sort reverses the rows,
\* sorts them ascending and reverses the outcome.
sort_values(ps, by, ascending) ==
    IF ascending THEN argsort(ps, by)
    ELSE Reverse(argsort(Reverse(ps), by))

\* The sorted rows keep the index they had before the sort.
reset_index_drop_mutant(ps) == ps

\* reset_index(drop=True): the row index becomes the row position.
reset_index_drop(ps) == [i \in DOMAIN ps |-> [ps[i] EXCEPT !.index = i - 1]]

\* reset_index(names='space'): the row index becomes the column `space`.
reset_index_names(ps) ==
    [i \in DOMAIN ps |->
        [space |-> ps[i].index, cx |-> ps[i].cx, cy |-> ps[i].cy,
         radius |-> ps[i].radius]]

apply_order(ps, left_right) ==
    reset_index_names(
        IF left_right
        THEN reset_index_drop(sort_values(ps, "cx", TRUE))
        ELSE reset_index_drop(sort_values(ps, "cy", FALSE)))

\* The caller's table of spaces grows by one row.
AddSpace ==
    /\ pc = "spaces"
    /\ Len(parking_spaces) < MaxSpaces
    /\ \E x \in 0..MaxCoord, y \in 0..MaxCoord, r \in RadiusValues :
          parking_spaces' = Append(parking_spaces,
                                   [index |-> Len(parking_spaces), cx |-> x,
                                    cy |-> y, radius |-> r])
    /\ UNCHANGED <<pc, order_left_right, ordered>>
    /\ UNCHANGED discoverer_vars

GetOrder ==
    /\ pc = "spaces"
    /\ order_left_right' = get_order(parking_spaces)
    /\ pc' = "decided"
    /\ UNCHANGED <<parking_spaces, ordered>>
    /\ UNCHANGED discoverer_vars

ApplyOrder ==
    /\ pc = "decided"
    /\ ordered' = apply_order(parking_spaces, order_left_right)
    /\ pc' = "applied"
    /\ UNCHANGED <<parking_spaces, order_left_right>>
    /\ UNCHANGED discoverer_vars

InitOrder ==
    /\ df = <<>>
    /\ columns = RequiredColumns
    /\ pc = "spaces"
    /\ call = NoCall
    /\ err = "none"
    /\ valid_clusters = {}
    /\ median_coords = <<>>
    /\ parking_spaces = <<>>
    /\ order_left_right = FALSE
    /\ ordered = <<>>

NextOrder == AddSpace \/ GetOrder \/ ApplyOrder

SpecOrder == InitOrder /\ [][NextOrder]_vars

(***************************************************************************)
(* Properties of the Space Discoverer (checked under Spec).                *)
(***************************************************************************)
Called == pc # "collect"
Returned == pc = "returned"
\* The call got as far as labelling the rows and counting the frames.
Counted == Called /\ {"cluster", "timestamp"} \subseteq columns

Rows == DOMAIN df
Labels == {df[i]["cluster"] : i \in Rows}
Members(c) == {i \in Rows : df[i]["cluster"] = c}
\* Number of distinct timestamps in the table, and among the members of c.
T == Cardinality({df[i]["timestamp"] : i \in Rows})
Recurrence(c) == Cardinality({df[i]["timestamp"] : i \in Members(c)})
\* ceil(min_recurrence_fraction * T)
CeilThreshold ==
    (call.threshold * T + ThresholdDen - 1) \div ThresholdDen

\* C1: a cluster is accepted if and only if the number of distinct
\* timestamps at which it has a member is >= min_recurrence_fraction * T;
\* hence one seen in ceil(fraction * T) - 1 timestamps is rejected and one
\* seen in ceil(fraction * T) timestamps is accepted.
C1_AcceptedIffRecurrent ==
    Counted =>
        \A c \in Labels :
            /\ (c \in valid_clusters) <=>
                   (Recurrence(c) * ThresholdDen >= call.threshold * T)
            /\ Recurrence(c) = CeilThreshold => c \in valid_clusters
            /\ Recurrence(c) = CeilThreshold - 1 => c \notin valid_clusters

\* A cluster accepted with exactly ceil(fraction * T) timestamps, next to a
\* group rejected one timestamp short of it.
C1_Witness ==
    /\ Returned
    /\ \E c \in Labels :
          /\ c # NOISE
          /\ c \in valid_clusters
          /\ Recurrence(c) = CeilThreshold
    /\ \E c \in Labels :
          /\ c \notin valid_clusters
          /\ Recurrence(c) = CeilThreshold - 1

\* C2: no row of the Discoverer's output is derived from the detections
\* labelled as noise: the noise group is never accepted.
C2_NoiseNeverEmitted ==
    Returned => NOISE \notin valid_clusters

\* C9: the call leaves the caller's table as it was: the same columns, and
\* no cluster assignment visible after the return.
C9_InputUnchanged ==
    Returned =>
        /\ columns = RequiredColumns
        /\ \A i \in Rows : DOMAIN df[i] = RequiredColumns

\* C8: when the table is empty or lacks a required column, the call fails
\* and hands back no sequence of spaces.
C8_InvalidInputFails ==
    (Called /\ (df = <<>> \/ ~(RequiredColumns \subseteq columns))) =>
        /\ pc = "raised"
        /\ err \in {"KeyError", "ValueError"}
        /\ median_coords = <<>>

\* A table with rows that lacks a bounding-box column fails after the rows
\* were clustered; an empty table fails as well.
C8_Witness ==
    /\ pc = "raised"
    /\ df # <<>>
    /\ "x1" \notin columns
    /\ "cluster" \in columns

\* The k-th smallest of the values of a non-empty sequence.
Kth(s, k) ==
    CHOOSE v \in Range(s) :
        /\ Cardinality({i \in DOMAIN s : s[i] < v}) < k
        /\ Cardinality({i \in DOMAIN s : s[i] <= v}) >= k

\* Twice the median: the sum of the lower and the upper middle value.
TwiceMedian(s) == Kth(s, (Len(s) + 1) \div 2) + Kth(s, (Len(s) + 2) \div 2)

MemberSeq(c) == SelectSeq(df, LAMBDA r : r["cluster"] = c)
Widths(c) == [i \in DOMAIN MemberSeq(c) |-> MemberSeq(c)[i]["x2"] - MemberSeq(c)[i]["x1"]]
Heights(c) == [i \in DOMAIN MemberSeq(c) |-> MemberSeq(c)[i]["y2"] - MemberSeq(c)[i]["y1"]]
MinSides(c) == [i \in DOMAIN MemberSeq(c) |-> Min(Widths(c)[i], Heights(c)[i])]

\* The space of cluster c: twice its median centre and, over RadiusDen,
\* min(median width, median height) * space_size / 2.
SpaceOf(c) ==
    [cx2 |-> TwiceMedian(Column(MemberSeq(c), "cx")),
     cy2 |-> TwiceMedian(Column(MemberSeq(c), "cy")),
     radius |-> Min(TwiceMedian(Widths(c)), TwiceMedian(Heights(c)))
                    * call.space_size]

SameSpace(row, sp) ==
    row.cx2 = sp.cx2 /\ row.cy2 = sp.cy2 /\ row.radius = sp.radius

\* C6: the output has exactly one row per accepted cluster, and that row's
\* centre and radius are the medians of that same cluster's members.
C6_OneSpacePerCluster ==
    Returned =>
        /\ Len(median_coords) = Cardinality(valid_clusters)
        /\ \E f \in [DOMAIN median_coords -> valid_clusters] :
              /\ \A j, k \in DOMAIN median_coords : f[j] = f[k] => j = k
              /\ \A k \in DOMAIN median_coords :
                    SameSpace(median_coords[k], SpaceOf(f[k]))

\* Two accepted groups with different radii, one of them with a median
\* width and a median height that come from different detections.
C6_Witness ==
    /\ Returned
    /\ Len(median_coords) >= 2
    /\ \E j, k \in DOMAIN median_coords :
          median_coords[j].radius # median_coords[k].radius
    /\ \E c \in valid_clusters :
          Min(TwiceMedian(Widths(c)), TwiceMedian(Heights(c)))
              # TwiceMedian(MinSides(c))

\* Detections i and j lie within eps of each other.
Near(i, j) ==
    (df[i]["cx"] - df[j]["cx"]) * (df[i]["cx"] - df[j]["cx"])
        + (df[i]["cy"] - df[j]["cy"]) * (df[i]["cy"] - df[j]["cy"])
            <= call.eps * call.eps

\* The detections linked to i by a chain of at most n steps within eps.
RECURSIVE Chain(_, _)
Chain(i, n) ==
    IF n = 0 THEN {i}
    ELSE LET prev == Chain(i, n - 1)
         IN prev \cup {j \in Rows : \E k \in prev : Near(k, j)}

Connected(i, j) == j \in Chain(i, Len(df))

SetMax(S) == CHOOSE m \in S : \A v \in S : v <= m
SetMin(S) == CHOOSE m \in S : \A v \in S : m <= v
Xs == {parking_spaces[i].cx : i \in DOMAIN parking_spaces}
Ys == {parking_spaces[i].cy : i \in DOMAIN parking_spaces}
span_x == SetMax(Xs) - SetMin(Xs)
span_y == SetMax(Ys) - SetMin(Ys)

Decided == pc \in {"decided", "applied"}
Applied == pc = "applied"
Tie == parking_spaces # <<>> /\ span_x = span_y

AscendingCx ==
    \A i, j \in DOMAIN ordered : i < j => ordered[i].cx <= ordered[j].cx
DescendingCy ==
    \A i, j \in DOMAIN ordered : i < j => ordered[i].cy >= ordered[j].cy

Content(r) == <<r.cx, r.cy, r.radius>>
CountIn(s, c) == Cardinality({i \in DOMAIN s : Content(s[i]) = c})
IsPermutation(a, b) ==
    /\ Len(a) = Len(b)
    /\ \A i \in DOMAIN a : CountIn(a, Content(a[i])) = CountIn(b, Content(a[i]))

\* C4: the Orderer's output is a permutation of its input rows; when
\* span_x > span_y, cx is non-decreasing along it, and when span_x < span_y,
\* cy is non-increasing along it.
C4_SortedPermutation ==
    Applied =>
        /\ IsPermutation(ordered, parking_spaces)
        /\ (parking_spaces # <<>> /\ span_x > span_y) => AscendingCx
        /\ (parking_spaces # <<>> /\ span_x < span_y) => DescendingCy

\* A taller-than-wide layout whose rows had to be moved.
C4_Witness ==
    /\ Applied
    /\ Len(parking_spaces) = 3
    /\ span_x < span_y
    /\ \E i \in DOMAIN ordered : Content(ordered[i]) # Content(parking_spaces[i])
    /\ \E i \in DOMAIN ordered : ordered[i].cy > ordered[Len(ordered)].cy

\* C5: the space column of the output is 0, 1, ..., n-1 in row order: the
\* i-th row of the sorted sequence carries index i.
C5_IndexContiguous ==
    Applied =>
        /\ Len(ordered) = Len(parking_spaces)
        /\ \A i \in DOMAIN ordered : ordered[i].space = i - 1

\* Three spaces that the sort moved away from their input positions.
C5_Witness ==
    /\ Applied
    /\ Len(ordered) = 3
    /\ \E i \in DOMAIN ordered : Content(ordered[i]) # Content(parking_spaces[i])

====
